---------------------------- MODULE Spec2Model ----------------------------
(***************************************************************************)
(* The QA agent of bot.py (LLM reasoning loop) and bot2.py (tool-only      *)
(* path): run_bot, the compiled two-node graph, llm_node, route, the       *)
(* prebuilt tool node and the three tools.                                 *)
(*                                                                         *)
(* Text is modelled by TLA+ strings, read character by character with      *)
(* SubSeq.  The log file is abstracted to the set of step types that       *)
(* log_step has written; plain print() lines are kept in order.            *)
(***************************************************************************)
EXTENDS Integers, Sequences, FiniteSets, TLC

VARIABLES
    variant,       \* which script runs: "bot" (bot.py) or "bot2" (bot2.py)
    pc,            \* run_bot's position
    user_input,    \* run_bot's local user_input (after strip)
    messages,      \* the graph state's "messages" channel
    node,          \* the graph node scheduled next: "llm", "tools", "END", "none"
    steps,         \* supersteps the graph runtime has executed in this invoke
    llm_calls,     \* calls of llm_with_tools.invoke made so far
    tool_steps,    \* executions of the tool node completed so far
    started,       \* tool node: indices of the requests whose function was started
    outputs,       \* tool node: index -> ToolMessage of the requests that returned
    printed,       \* lines written by plain print(), in order
    logged,        \* step types written by log_step (stdout and logs.txt)
    final_output,  \* bot.py: contents logged after the FINAL OUTPUT header;
                   \* bot2.py: tool_output, logged as TOOL RESULT
    err            \* the exception that ended the run: "none", "llm", "recursion", "interrupt"

vars == <<variant, pc, user_input, messages, node, steps, llm_calls, tool_steps,
          started, outputs, printed, logged, final_output, err>>

\* ------------------------------------------------------------------ bounds

\* Most tool requests the modelled LLM puts in one reply.
MaxCalls == 2

\* The graph runtime's default recursion limit: app.invoke is called without a
\* config, so a run may execute at most this many supersteps.
RecursionLimit == 25

\* ------------------------------------------------------------------ text

CharAt(s, i) == SubSeq(s, i, i)

\* str.isspace for the characters the inputs use.
IsSpace(c) == c \in {" ", "\t", "\n"}

RECURSIVE LStrip(_)
LStrip(s) ==
    IF Len(s) > 0 /\ IsSpace(CharAt(s, 1)) THEN LStrip(SubSeq(s, 2, Len(s))) ELSE s

RECURSIVE RStrip(_)
RStrip(s) ==
    IF Len(s) > 0 /\ IsSpace(CharAt(s, Len(s))) THEN RStrip(SubSeq(s, 1, Len(s) - 1)) ELSE s

\* str.strip()
Strip(s) == RStrip(LStrip(s))

\* len(s.split()): the whitespace-delimited tokens of s.
WordCount(s) ==
    Cardinality({i \in 1..Len(s) :
        /\ ~IsSpace(CharAt(s, i))
        /\ (i = 1 \/ IsSpace(CharAt(s, i - 1)))})

\* sub in s
Contains(s, sub) ==
    \E i \in 1..(Len(s) - Len(sub) + 1) : SubSeq(s, i, i + Len(sub) - 1) = sub

\* s.split("\n")
RECURSIVE Lines(_)
Lines(s) ==
    IF \E i \in 1..Len(s) : CharAt(s, i) = "\n"
    THEN LET i == CHOOSE j \in 1..Len(s) :
                     /\ CharAt(s, j) = "\n"
                     /\ \A k \in 1..(j - 1) : CharAt(s, k) # "\n"
         IN <<SubSeq(s, 1, i - 1)>> \o Lines(SubSeq(s, i + 1, Len(s)))
    ELSE <<s>>

Digit(d) == SubSeq("0123456789", d + 1, d + 1)

\* str(n) for n >= 0
RECURSIVE Decimal(_)
Decimal(n) == IF n < 10 THEN Digit(n) ELSE Decimal(n \div 10) \o Digit(n % 10)

\* f"{i:03d}": decimal, left-padded with zeros to at least three digits.
RECURSIVE ZeroPad(_, _)
ZeroPad(s, width) == IF Len(s) < width THEN ZeroPad("0" \o s, width) ELSE s

Pad3(i) == ZeroPad(Decimal(i), 3)

\* ------------------------------------------------------------------ tools

requirement_structure_tool(requirement) ==
    [analyzed_length |-> WordCount(requirement),
     status |-> "Requirement Received & Parsed"]

generic_test_generator(action, expected_outcome) ==
    << "POSITIVE: Verify user can '" \o action \o "' and see '" \o expected_outcome \o "'.",
       "NEGATIVE: Verify '" \o action \o "' with empty data does NOT show '"
            \o expected_outcome \o "'.",
       "BOUNDARY: Verify '" \o action \o "' with max character limit handles gracefully.",
       "SECURITY: Verify '" \o action \o "' is protected against common vulnerabilities." >>

\* The loop of report_formatter from entry i on: enumerate(test_cases, 1).
RECURSIVE ReportEntries(_, _)
ReportEntries(test_cases, i) ==
    IF i > Len(test_cases) THEN ""
    ELSE "TC_" \o Pad3(i) \o ": " \o test_cases[i] \o "\n"
         \o ReportEntries(test_cases, i + 1)

ReportHeader == "--- QA AUTOMATION REPORT ---"
ReportFooter == "----------------------------"

\* Mutant: the entries are numbered from 0.
RECURSIVE ReportEntriesFromZero(_, _)
ReportEntriesFromZero(test_cases, i) ==
    IF i > Len(test_cases) THEN ""
    ELSE "TC_" \o Pad3(i - 1) \o ": " \o test_cases[i] \o "\n"
         \o ReportEntriesFromZero(test_cases, i + 1)

report_formatter_from_zero(test_cases) ==
    ReportHeader \o "\n" \o ReportEntriesFromZero(test_cases, 1) \o ReportFooter

report_formatter(test_cases) ==
    ReportHeader \o "\n" \o ReportEntries(test_cases, 1) \o ReportFooter

TOOLS == {"requirement_structure_tool", "generic_test_generator", "report_formatter"}

\* tools_by_name[call.name].invoke(call.args)
InvokeTool(call) ==
    CASE call.name = "requirement_structure_tool" ->
            requirement_structure_tool(call.args.requirement)
      [] call.name = "generic_test_generator" ->
            generic_test_generator(call.args.action, call.args.expected_outcome)
      [] call.name = "report_formatter" ->
            report_formatter(call.args.test_cases)

\* ------------------------------------------------------------------ messages

HumanMessage(content) == [type |-> "human", content |-> content]

AIMessage(content, tool_calls) ==
    [type |-> "ai", content |-> content, tool_calls |-> tool_calls]

\* Mutant: the Tool message loses its request's id.
ToolMessage_no_id(content, name, tool_call_id) ==
    [type |-> "tool", content |-> content, name |-> name, tool_call_id |-> ""]

\* The tool node wraps a tool's return value in a ToolMessage named after the
\* tool and carrying the request's id.  The content is kept as the returned
\* value; its rendering as text is not modelled.
ToolMessage(content, name, tool_call_id) ==
    [type |-> "tool", content |-> content, name |-> name, tool_call_id |-> tool_call_id]

Last(s) == s[Len(s)]

HasToolCalls(m) == m.type = "ai" /\ Len(m.tool_calls) > 0
\* ------------------------------------------------------------------ graph

\* AgentState declares "messages: List[BaseMessage]" with no reducer, so the
\* value a node returns under "messages" replaces the channel's value.
AgentState(old, update) == update

\* llm_node's return value for the reply `response`.
llm_node(state, response) == state \o <<response>>

\* Mutant: any AI message of the conversation with tool calls sends it to "tools".
route_any(state) ==
    IF \E i \in 1..Len(state) : HasToolCalls(state[i]) THEN "tools" ELSE "END"

route(state) ==
    LET last_msg == Last(state)
    IN  IF last_msg.type = "ai" /\ Len(last_msg.tool_calls) > 0 THEN "tools" ELSE "END"

\* graph.set_entry_point
EntryPoint == IF variant = "bot" THEN "llm" ELSE "tools"

\* Mutant: the edge out of "tools" leads to END.
AfterTools_end == "END"

\* graph.add_edge("tools", ...)
AfterTools == IF variant = "bot" THEN "llm" ELSE "END"

\* Mutant: no limit on the supersteps.
OutOfSteps_never(n) == FALSE

\* The runtime refuses a further superstep once the limit is used up.
OutOfSteps(n) == n >= RecursionLimit

\* ------------------------------------------------------------------ inputs

\* Lines typed at the prompt.
InputLines == {"", "  \t", "login", " login ", "user can log in"}

\* Text of a reply of the LLM.
ReplyTexts == {"", "The scenario is clear."}

\* Tool requests the LLM may make (well-typed arguments).
CallChoices ==
    { [name |-> "requirement_structure_tool",
       args |-> [requirement |-> "log in as admin"]],
      [name |-> "generic_test_generator",
       args |-> [action |-> "login", expected_outcome |-> "Success"]],
      [name |-> "report_formatter",
       args |-> [test_cases |-> <<"Verify login", "Verify logout">>]] }

\* The tool_calls of one reply: up to MaxCalls requests, each with its own id.
WithIds(cs) ==
    [i \in 1..Len(cs) |->
        [name |-> cs[i].name, args |-> cs[i].args, id |-> "call_" \o Decimal(i)]]

\* The replies modelled request each choice at most once.
ToolCallLists ==
    UNION { {cs \in [1..n -> CallChoices] : \A i, j \in 1..n : cs[i] = cs[j] => i = j}
            : n \in 0..MaxCalls }

\* ------------------------------------------------------------------ run_bot

\* The lines run_bot prints before the prompt (the emoji of bot.py's title
\* line is left out).
Banner ==
    IF variant = "bot"
    THEN << "\n=============================================",
            " QA LangGraph Agent (Gemini) Ready ",
            "=============================================" >>
    ELSE << "QEA Agent (Tools Only + Logging)" >>

EmptyMessage == "Error: Scenario cannot be empty."

\* str(e) of the exception that ended the run.
ExcText(e) ==
    IF e = "llm" THEN "LLM call failed" ELSE "Recursion limit reached"

ErrorLine(e) == (IF variant = "bot" THEN "\nError: " ELSE "Error: ") \o ExcText(e)

manual_tool_call(text) ==
    AIMessage("", << [name |-> "generic_test_generator",
                      args |-> [action |-> text, expected_outcome |-> "Success"],
                      id |-> "manual_call_id"] >>)

NoOutputs == [i \in {} |-> i]

Init ==
    /\ variant \in {"bot", "bot2"}
    /\ pc = "start"
    /\ user_input = ""
    /\ messages = <<>>
    /\ node = "none"
    /\ steps = 0
    /\ llm_calls = 0
    /\ tool_steps = 0
    /\ started = {}
    /\ outputs = NoOutputs
    /\ printed = <<>>
    /\ logged = {}
    /\ final_output = <<>>
    /\ err = "none"

\* run_bot from its first line to the call of app.invoke (or the early return).
ReadInput(line) ==
    /\ pc = "start"
    /\ user_input' = Strip(line)
    /\ IF user_input' = ""
       THEN /\ printed' = IF variant = "bot" THEN Banner \o <<EmptyMessage>> ELSE Banner
            /\ pc' = "rejected"
            /\ UNCHANGED <<messages, node, logged>>
       ELSE /\ printed' = Banner
            /\ logged' = IF variant = "bot" THEN {"INPUT SCENARIO"} ELSE {"INPUT", "ACTION"}
            /\ messages' = IF variant = "bot"
                           THEN <<HumanMessage(user_input')>>
                           ELSE <<manual_tool_call(user_input')>>
            /\ node' = EntryPoint
            /\ pc' = "invoke"
    /\ UNCHANGED <<variant, steps, llm_calls, tool_steps, started, outputs,
                   final_output, err>>

\* What an exception raised inside app.invoke does: run_bot's "except Exception".
Raise(e) ==
    /\ err' = e
    /\ pc' = "error"
    /\ printed' = Append(printed, ErrorLine(e))

\* llm_node with a reply from the LLM, then the conditional edge (route).
LlmReply(content, calls) ==
    /\ pc = "invoke" /\ node = "llm" /\ ~OutOfSteps(steps)
    /\ LET response == AIMessage(content, WithIds(calls))
       IN  /\ logged' = logged \cup (IF content # "" THEN {"THOUGHT"} ELSE {})
                               \cup (IF Len(calls) > 0 THEN {"ACTION"} ELSE {})
           /\ messages' = AgentState(messages, llm_node(messages, response))
    /\ node' = route(messages')
    /\ steps' = steps + 1
    /\ llm_calls' = llm_calls + 1
    /\ UNCHANGED <<variant, pc, user_input, tool_steps, started, outputs, printed,
                   final_output, err>>

\* Mutant: the failure is swallowed and the node is run again.
LlmFail_retry ==
    /\ pc = "invoke" /\ node = "llm" /\ ~OutOfSteps(steps)
    /\ llm_calls' = llm_calls + 1
    /\ err' = "llm"
    /\ UNCHANGED <<variant, pc, user_input, messages, node, steps, tool_steps, started,
                   outputs, printed, logged, final_output>>

\* llm_node when llm_with_tools.invoke raises: nothing catches it before run_bot.
LlmFail ==
    /\ pc = "invoke" /\ node = "llm" /\ ~OutOfSteps(steps)
    /\ llm_calls' = llm_calls + 1
    /\ Raise("llm")
    /\ UNCHANGED <<variant, user_input, messages, node, steps, tool_steps, started,
                   outputs, logged, final_output>>

\* The request the tool node serves: the last message of its input.
Requests == Last(messages).tool_calls

\* The tool node hands every request to its executor; a worker starts request i.
ToolStart(i) ==
    /\ pc = "invoke" /\ node = "tools" /\ ~OutOfSteps(steps)
    /\ i \in (1..Len(Requests)) \ started
    /\ started' = started \cup {i}
    /\ UNCHANGED <<variant, pc, user_input, messages, node, steps, llm_calls,
                   tool_steps, outputs, printed, logged, final_output, err>>

\* Request i's function returns; its result is wrapped in a ToolMessage.
ToolFinish(i) ==
    /\ pc = "invoke" /\ node = "tools"
    /\ i \in started \ DOMAIN outputs
    /\ LET call == Requests[i]
       IN  outputs' = [j \in DOMAIN outputs \cup {i} |->
                          IF j = i THEN ToolMessage(InvokeTool(call), call.name, call.id)
                                   ELSE outputs[j]]
    /\ UNCHANGED <<variant, pc, user_input, messages, node, steps, llm_calls,
                   tool_steps, started, printed, logged, final_output, err>>

\* All requests returned: the tool node returns {"messages": outputs}, in
\* request order, and the graph follows the edge out of "tools".
ToolsReturn ==
    /\ pc = "invoke" /\ node = "tools"
    /\ DOMAIN outputs = 1..Len(Requests)
    /\ messages' = AgentState(messages, [i \in 1..Len(Requests) |-> outputs[i]])
    /\ node' = AfterTools
    /\ steps' = steps + 1
    /\ tool_steps' = tool_steps + 1
    /\ started' = {}
    /\ outputs' = NoOutputs
    /\ UNCHANGED <<variant, pc, user_input, llm_calls, printed, logged,
                   final_output, err>>

\* A node is scheduled but the recursion limit is used up: the runtime raises.
RecursionError ==
    /\ pc = "invoke" /\ node \in {"llm", "tools"} /\ OutOfSteps(steps)
    /\ Raise("recursion")
    /\ UNCHANGED <<variant, user_input, messages, node, steps, llm_calls, tool_steps,
                   started, outputs, logged, final_output>>

\* The ToolMessage contents of a result, in order.
RECURSIVE Observations(_)
Observations(ms) ==
    IF ms = <<>> THEN <<>>
    ELSE (IF Head(ms).type = "tool" THEN <<Head(ms).content>> ELSE <<>>)
         \o Observations(Tail(ms))

\* app.invoke returned: run_bot's lines after it.
Finish ==
    /\ pc = "invoke" /\ node = "END"
    /\ IF variant = "bot"
       THEN /\ printed' = Append(printed, "\n FINAL OUTPUT\n")
            /\ final_output' = Observations(messages)
            /\ logged' = logged \cup (IF final_output' # <<>> THEN {"OBSERVATION"} ELSE {})
       ELSE /\ final_output' = <<Last(messages).content>>
            /\ logged' = logged \cup {"TOOL RESULT"}
            /\ printed' = Append(printed, "\nFINAL OUTPUT (See logs.txt for full history)")
    /\ pc' = "done"
    /\ UNCHANGED <<variant, user_input, messages, node, steps, llm_calls, tool_steps,
                   started, outputs, err>>

\* Ctrl-C at the prompt or during app.invoke: bot.py catches KeyboardInterrupt,
\* bot2.py does not.
Interrupt ==
    /\ pc \in {"start", "invoke"}
    /\ err' = "interrupt"
    /\ IF variant = "bot"
       THEN /\ printed' = (IF pc = "start" THEN Banner ELSE printed)
                          \o <<"\nBot stopped by user.">>
            /\ pc' = "stopped"
       ELSE /\ printed' = (IF pc = "start" THEN Banner ELSE printed)
            /\ pc' = "crashed"
    /\ UNCHANGED <<variant, user_input, messages, node, steps, llm_calls, tool_steps,
                   started, outputs, logged, final_output>>

Next ==
    \/ \E line \in InputLines : ReadInput(line)
    \/ \E content \in ReplyTexts, calls \in ToolCallLists : LlmReply(content, calls)
    \/ LlmFail
    \/ \E i \in 1..MaxCalls : ToolStart(i)
    \/ \E i \in 1..MaxCalls : ToolFinish(i)
    \/ ToolsReturn
    \/ RecursionError
    \/ Finish
    \/ Interrupt

Spec == Init /\ [][Next]_vars

\* ------------------------------------------------------------------ route alone

\* Longest conversation handed to route.
MaxRouteLen == 3

\* Messages of every kind a conversation can hold.
SampleMessages ==
    { HumanMessage("login"),
      AIMessage("The scenario is clear.", <<>>),
      AIMessage("", WithIds(<<CHOOSE c \in CallChoices : c.name = "report_formatter">>)),
      AIMessage("The scenario is clear.",
                WithIds(<<CHOOSE c \in CallChoices : c.name = "generic_test_generator",
                          CHOOSE c \in CallChoices : c.name = "requirement_structure_tool">>)),
      ToolMessage(requirement_structure_tool("log in as admin"),
                  "requirement_structure_tool", "call_1") }

RouteInputs == UNION {[1..n -> SampleMessages] : n \in 1..MaxRouteLen}

RouteInit ==
    /\ variant = "bot"
    /\ pc = "route"
    /\ user_input = ""
    /\ messages \in RouteInputs
    /\ node = "none"
    /\ steps = 0
    /\ llm_calls = 0
    /\ tool_steps = 0
    /\ started = {}
    /\ outputs = NoOutputs
    /\ printed = <<>>
    /\ logged = {}
    /\ final_output = <<>>
    /\ err = "none"

\* route applied to the conversation.
RouteApply ==
    /\ pc = "route" /\ node = "none"
    /\ node' = route(messages)
    /\ UNCHANGED <<variant, pc, user_input, messages, steps, llm_calls, tool_steps,
                   started, outputs, printed, logged, final_output, err>>

RouteNext == RouteApply

RouteSpec == RouteInit /\ [][RouteNext]_vars

\* ------------------------------------------------------------------ claims

IsPrefix(a, b) == Len(a) <= Len(b) /\ SubSeq(b, 1, Len(a)) = a

\* C1: route depends on the last message only: "tools" when it is an AI
\* message with at least one tool call, END when it is an AI message without
\* tool calls or not an AI message; any conversation with the same last message
\* gets the same answer.
C1_RouteLastOnly ==
    node # "none" =>
        /\ (HasToolCalls(Last(messages)) => node = "tools")
        /\ (~HasToolCalls(Last(messages)) => node = "END")
        /\ \A other \in RouteInputs :
              Last(other) = Last(messages) => route(other) = node

\* C1 witness: END for a conversation that ends with a Tool message although an
\* earlier AI message carries tool calls.
C1_Witness ==
    /\ node = "END"
    /\ Last(messages).type = "tool"
    /\ \E i \in 1..Len(messages) : HasToolCalls(messages[i])

\* C2 (as claimed): during a run of the graph every step leaves the previous
\* conversation as a prefix of the new one.
C2_AppendOnly ==
    [][pc = "invoke" /\ pc' = "invoke" => IsPrefix(messages, messages')]_vars

\* A Tool message at position i answers the nearest AI message before it, with
\* only Tool messages in between, and that AI message requested its id.
Answered(ms, i) ==
    \E j \in 1..(i - 1) :
        /\ ms[j].type = "ai"
        /\ \A k \in (j + 1)..(i - 1) : ms[k].type = "tool"
        /\ \E c \in 1..Len(ms[j].tool_calls) : ms[j].tool_calls[c].id = ms[i].tool_call_id

\* C3 (as claimed, for bot.py): the conversation starts with a Human message
\* and every Tool message follows the AI message that requested it.
C3_WellFormed ==
    (variant = "bot" /\ messages # <<>>) =>
        /\ messages[1].type = "human"
        /\ \A i \in 1..Len(messages) : messages[i].type = "tool" => Answered(messages, i)

\* C4: in bot.py the graph starts in Reasoning; Reasoning is followed by
\* ToolExecution exactly when the reply just produced carries tool requests and
\* by Terminal otherwise; ToolExecution is followed by Reasoning only; and in
\* Terminal the most recent AI message carries no tool request.
C4_StateMachine ==
    /\ [](variant = "bot" /\ node = "END" =>
              Last(messages).type = "ai" /\ ~HasToolCalls(Last(messages)))
    /\ [][variant = "bot" =>
            /\ (pc = "start" /\ pc' = "invoke" => node' = "llm")
            /\ (node = "llm" /\ llm_calls' = llm_calls + 1 /\ pc' = "invoke" =>
                    /\ Last(messages').type = "ai"
                    /\ node' = IF HasToolCalls(Last(messages')) THEN "tools" ELSE "END")
            /\ (node = "tools" => node' \in {"tools", "llm"})
            /\ (node' = "END" => node \in {"llm", "END"})]_vars

\* C4 witness: Terminal reached after at least one pass through ToolExecution.
C4_Witness == variant = "bot" /\ node = "END" /\ tool_steps >= 1

\* C5 (as claimed): nothing but a reply without tool requests ends the loop: a
\* run of bot.py that has ended without an LLM failure or an interrupt ended in
\* Terminal, after a reply with no tool request.
C5_NoCycleLimit ==
    (variant = "bot" /\ pc \in {"done", "error"} /\ err \notin {"llm", "interrupt"}) =>
        (node = "END" /\ ~HasToolCalls(Last(messages)))

\* C5 (amended): bot.py has no limit of its own and the two steps alternate,
\* reaching Terminal as soon as, and only when, a reply carries no tool
\* request; but the loop is not unbounded: the graph runtime executes at most
\* RecursionLimit supersteps and then raises, which ends the run in error.
C5_CycleLimit ==
    variant = "bot" =>
        /\ steps <= RecursionLimit
        /\ steps = llm_calls + tool_steps \/ err = "llm"
        /\ (node = "END" => Last(messages).type = "ai" /\ ~HasToolCalls(Last(messages)))
        /\ (pc = "invoke" /\ node \in {"llm", "tools"} /\ llm_calls > 0 =>
                llm_calls = tool_steps + (IF node = "tools" THEN 1 ELSE 0))
        /\ (pc = "invoke" /\ llm_calls > 0 /\ Last(messages).type = "ai"
                /\ ~HasToolCalls(Last(messages)) => node = "END")
        /\ (err = "recursion" =>
                /\ pc = "error"
                /\ steps = RecursionLimit
                /\ node \in {"llm", "tools"})

\* C5 witness: a run in which every reply requested a tool, cut off by the
\* recursion limit.
C5_Witness == variant = "bot" /\ pc = "error" /\ err = "recursion"

\* C6 (as claimed): the tool node runs the requested functions one at a time.
C6_OneAtATime == Cardinality(started \ DOMAIN outputs) <= 1

\* C6 (amended): a Tool Execution Step given an AI message with k >= 1 requests
\* produces exactly k Tool messages, in request order, each carrying its
\* request's id and name and the result of the named function on the request's
\* arguments; the functions may be in flight at the same time.
C6_ToolMessages ==
    [][tool_steps' = tool_steps + 1 =>
         LET reqs == Last(messages).tool_calls
             k == Len(reqs)
             n == Len(messages')
         IN  /\ k >= 1
             /\ n >= k
             /\ (n > k => messages'[n - k].type # "tool")
             /\ \A i \in 1..k :
                   LET m == messages'[n - k + i]
                   IN  /\ m.type = "tool"
                       /\ m.tool_call_id = reqs[i].id
                       /\ m.name = reqs[i].name
                       /\ m.content = InvokeTool(reqs[i])]_vars

\* C6 witness: a Tool Execution Step that served two requests has returned.
C6_Witness ==
    /\ variant = "bot" /\ tool_steps >= 1 /\ node = "llm"
    /\ Len(messages) = 2
    /\ messages[1].type = "tool" /\ messages[2].type = "tool"
    /\ messages[1].tool_call_id # messages[2].tool_call_id

\* C7 (as claimed): an empty line is rejected with a printed message, and
\* neither the graph, the LLM, a tool nor log_step is used.
C7_EmptyRejected ==
    pc = "rejected" =>
        /\ Len(printed) > Len(Banner)
        /\ node = "none" /\ messages = <<>> /\ steps = 0
        /\ llm_calls = 0 /\ tool_steps = 0 /\ started = {}
        /\ logged = {}

\* C8: a failed LLM call is not retried: the step that fails appends no
\* message, ends the run in run_bot's exception handler with the error
\* printed, and afterwards no LLM call and no tool call is made.
C8_NoRetry ==
    [][/\ (err # "llm" /\ err' = "llm" =>
              /\ llm_calls' = llm_calls + 1
              /\ messages' = messages
              /\ pc' = "error"
              /\ printed' = Append(printed, ErrorLine("llm")))
       /\ (err = "llm" =>
              /\ llm_calls' = llm_calls
              /\ tool_steps' = tool_steps
              /\ started' = started
              /\ outputs' = outputs
              /\ messages' = messages
              /\ pc' = "error")]_vars

\* C8 witness: the LLM call failed at a later iteration of the loop.
C8_Witness == err = "llm" /\ pc = "error" /\ llm_calls >= 2 /\ tool_steps >= 1

\* C9 (as claimed): for the input "user can log in" and a first reply without
\* tool calls, one Reasoning Step runs, the conversation is the Human input
\* followed by one AI message, and the FINAL OUTPUT block is that message's text.
C9_FinalOutput ==
    (variant = "bot" /\ pc = "done" /\ user_input = "user can log in" /\ tool_steps = 0) =>
        /\ llm_calls = 1 /\ steps = 1
        /\ Len(messages) = 2
        /\ messages[1] = HumanMessage(user_input)
        /\ messages[2].type = "ai"
        /\ final_output = IF messages[2].content = "" THEN <<>> ELSE <<messages[2].content>>

\* C10 (as claimed): the report made from the four generated cases has five lines.
C10_FiveLines ==
    (variant = "bot2" /\ pc = "done" /\ user_input = "login") =>
        Len(Lines(report_formatter(final_output[1]))) = 5

\* C10 (amended): on the bot2.py path the tool returns exactly four strings,
\* each containing the input, and report_formatter on that list gives a
\* six-line block: the header, four entries numbered TC_001 to TC_004 by list
\* position, and the footer.
C10_Report ==
    (variant = "bot2" /\ pc = "done") =>
        LET cases == final_output[1]
            block == Lines(report_formatter(cases))
        IN  /\ Len(cases) = 4
            /\ \A i \in 1..4 : Contains(cases[i], user_input)
            /\ Len(block) = 6
            /\ block[1] = ReportHeader
            /\ \A i \in 1..4 : block[i + 1] = "TC_00" \o Digit(i) \o ": " \o cases[i]
            /\ block[6] = ReportFooter

\* C10 witness: the bot2.py run for the input "login" has finished.
C10_Witness ==
    /\ variant = "bot2" /\ pc = "done" /\ user_input = "login"
    /\ Len(final_output) = 1 /\ Len(final_output[1]) = 4

=============================================================================
